---- MODULE Spec2Model ----
(***************************************************************************)
(* The Vortex packet envelope of src/src/lib.rs: Vortex::new,              *)
(* Vortex::from_bytes, Vortex::to_bytes and the TryFrom dispatch.          *)
(*                                                                         *)
(* Byte counts reach 2^32 and beyond, which a TLC integer cannot hold, so  *)
(* a usize is kept exactly as two 16-bit limbs [hi, lo] = hi * 2^16 + lo.  *)
(* A byte buffer (bytes::Bytes) is kept exactly as its explicit bytes      *)
(* followed by a counted run of zero bytes (vec![0; n] of the tests), in   *)
(* the normal form where every trailing zero byte is in the run.           *)
(***************************************************************************)
EXTENDS Integers, Sequences, FiniteSets

\* ------------------------------------------------------------------ bounds
\* Longest explicit (non-run) part of a value drawn as an input.
MaxData == 2

\* ------------------------------------------------------------- usize, u32
Base == 256 * 256

Big(h, l) == [hi |-> h, lo |-> l]

Small(n) == Big(0, n)

\* a + n, for 0 <= n < Base
BigAdd(a, n) ==
  LET s == a.lo + n
  IN  IF s >= Base THEN Big(a.hi + 1, s - Base) ELSE Big(a.hi, s)

\* a - n, for 0 <= n < Base and n <= a
BigSub(a, n) ==
  IF a.lo >= n THEN Big(a.hi, a.lo - n) ELSE Big(a.hi - 1, a.lo + Base - n)

BigLess(a, b) == a.hi < b.hi \/ (a.hi = b.hi /\ a.lo < b.lo)

\* `x as u32` of a usize: reduction modulo 2^32
AsU32(a) == Big(a.hi % Base, a.lo)

\* BufMut::put_u32: the four big-endian bytes of a u32
PutU32(a) == << a.hi \div 256, a.hi % 256, a.lo \div 256, a.lo % 256 >>

\* u32::from_be_bytes(..) as usize
U32FromBeBytes(b) == Big(b[1] * 256 + b[2], b[3] * 256 + b[4])

\* --------------------------------------------------------------- constants
HEADER_SIZE == 6

\* 4 * 1024 * 1024 * 1024 = (4 * 1024 * 16) * 2^16
MAX_VALUE_SIZE == Big(4 * 1024 * 16, 0)

\* ------------------------------------------------------------------- Bytes
RECURSIVE StripZeros(_)
StripZeros(s) ==
  IF s # << >> /\ s[Len(s)] = 0
    THEN StripZeros(SubSeq(s, 1, Len(s) - 1))
    ELSE s

\* the buffer  data ++ (n zero bytes), in normal form
Mk(data, n) ==
  LET d == StripZeros(data)
  IN  [data |-> d, pad |-> BigAdd(n, Len(data) - Len(d))]

EmptyBytes == Mk(<< >>, Small(0))

\* Bytes::len
BLen(b) == BigAdd(b.pad, Len(b.data))

\* b[i], 0-based, for i < len
ByteAt(b, i) == IF i < Len(b.data) THEN b.data[i + 1] ELSE 0

\* the first n bytes, for n <= len
Take(b, n) == [i \in 1..n |-> ByteAt(b, i - 1)]

\* the bytes after the first n, for n <= len
Drop(b, n) ==
  IF n <= Len(b.data)
    THEN Mk(SubSeq(b.data, n + 1, Len(b.data)), b.pad)
    ELSE Mk(<< >>, BigSub(b.pad, n - Len(b.data)))

\* s ++ b
Concat(s, b) ==
  IF b.data = << >> THEN Mk(s, b.pad) ELSE [data |-> s \o b.data, pad |-> b.pad]

\* BytesMut::split_to(at): panics when at > len
split_to(b, at) ==
  IF BigLess(BLen(b), Small(at))
    THEN [panic |-> TRUE, head |-> << >>, rest |-> EmptyBytes]
    ELSE [panic |-> FALSE, head |-> Take(b, at), rest |-> Drop(b, at)]

\* ---------------------------------------------------------------- tlv::Tag
TAG_DOWNLOAD_PIECE == 0
TAG_PIECE_CONTENT == 1
TAG_CLOSE == 254
TAG_ERROR == 255

DownloadPieceTag == [name |-> "DownloadPiece", byte |-> TAG_DOWNLOAD_PIECE]
PieceContentTag == [name |-> "PieceContent", byte |-> TAG_PIECE_CONTENT]
CloseTag == [name |-> "Close", byte |-> TAG_CLOSE]
ErrorTag == [name |-> "Error", byte |-> TAG_ERROR]
ReservedTag(b) == [name |-> "Reserved", byte |-> b]

\* TryFrom<u8> for Tag: every byte maps to one variant, an unassigned code
\* to Reserved carrying the byte
TagTryFrom(b) ==
  [ok |-> TRUE,
   tag |-> CASE b = TAG_DOWNLOAD_PIECE -> DownloadPieceTag
             [] b = TAG_PIECE_CONTENT -> PieceContentTag
             [] b = TAG_CLOSE -> CloseTag
             [] b = TAG_ERROR -> ErrorTag
             [] OTHER -> ReservedTag(b)]

\* From<Tag> for u8
TagToU8(t) ==
  CASE t.name = "DownloadPiece" -> TAG_DOWNLOAD_PIECE
    [] t.name = "PieceContent" -> TAG_PIECE_CONTENT
    [] t.name = "Close" -> TAG_CLOSE
    [] t.name = "Error" -> TAG_ERROR
    [] OTHER -> t.byte

\* ------------------------------------------------------------ error::Error
Err(kind, expected, actual) ==
  [kind |-> kind, expected |-> expected, actual |-> actual]

NoError == Err("none", Small(0), Small(0))

\* ------------------------------------------------- payload collaborators
\* The separator of the structured payloads ('-').
SEPARATOR == 45

RECURSIVE FirstSep(_, _)
\* index of the first separator of s at or after i, 0 when there is none
FirstSep(s, i) ==
  IF i > Len(s) THEN 0
  ELSE IF s[i] = SEPARATOR THEN i
  ELSE FirstSep(s, i + 1)

NoPayload == [head |-> << >>, rest |-> EmptyBytes]

\* a structured value: a non-empty field, the separator, the remaining bytes
StructuredTryFrom(value) ==
  LET k == FirstSep(value.data, 1)
  IN  IF k <= 1
        THEN [ok |-> FALSE, payload |-> NoPayload,
              err |-> Err("InvalidPacket", Small(0), BLen(value))]
        ELSE [ok |-> TRUE,
              payload |-> [head |-> SubSeq(value.data, 1, k - 1),
                           rest |-> Drop(value, k)],
              err |-> NoError]

StructuredInto(payload) == Concat(payload.head \o << SEPARATOR >>, payload.rest)

\* tlv::download_piece::DownloadPiece: task id, separator, piece number
DownloadPieceTryFrom(value) == StructuredTryFrom(value)

DownloadPieceInto(payload) == StructuredInto(payload)

\* tlv::error::Error: code, separator, message
ErrorTryFrom(value) == StructuredTryFrom(value)

ErrorInto(payload) == StructuredInto(payload)

\* tlv::piece_content::PieceContent: the raw bytes, at most MAX_VALUE_SIZE
PieceContentTryFrom(value) ==
  IF BigLess(MAX_VALUE_SIZE, BLen(value))
    THEN [ok |-> FALSE, payload |-> NoPayload,
          err |-> Err("InvalidLength", MAX_VALUE_SIZE, BLen(value))]
    ELSE [ok |-> TRUE, payload |-> [head |-> << >>, rest |-> value],
          err |-> NoError]

PieceContentInto(payload) == payload.rest

\* ----------------------------------------------------------------- Vortex
Header(packet_id, tag, length) ==
  [packet_id |-> packet_id, tag |-> tag, length |-> length]

NoPacket ==
  [variant |-> "none", header |-> Header(0, ReservedTag(0), Small(0)),
   payload |-> NoPayload]

Ok(pkt, log) == [kind |-> "ok", pkt |-> pkt, err |-> NoError, log |-> log]

Fail(err, log) == [kind |-> "err", pkt |-> NoPacket, err |-> err, log |-> log]

Panic(log) == [kind |-> "panic", pkt |-> NoPacket, err |-> NoError, log |-> log]

NoResult == [kind |-> "none", pkt |-> NoPacket, err |-> NoError, log |-> << >>]

Variant(v, header, payload) ==
  [variant |-> v, header |-> header, payload |-> payload]

\* the payload collaborator's result as the packet or the error
Collab(v, header, r, log) ==
  IF r.ok THEN Ok(Variant(v, header, r.payload), log) ELSE Fail(r.err, log)

\* TryFrom<(tlv::Tag, Header, Bytes)> for Vortex
try_from(tag, header, value, log) ==
  LET l == log \o << "dispatch" >>
  IN  CASE tag.name = "DownloadPiece" ->
             Collab("DownloadPiece", header, DownloadPieceTryFrom(value), l)
        [] tag.name = "PieceContent" ->
             Collab("PieceContent", header, PieceContentTryFrom(value), l)
        [] tag.name = "Reserved" -> Ok(Variant("Reserved", header, NoPayload), l)
        [] tag.name = "Close" -> Ok(Variant("Close", header, NoPayload), l)
        [] tag.name = "Error" ->
             Collab("Error", header, ErrorTryFrom(value), l)

\* Vortex::new, with the byte the random generator returns
new(tag, value, rnd) ==
  LET header == Header(rnd, tag, BLen(value))
  IN  try_from(tag, header, value, << "rng", "header" >>)

packet_id(p) == p.header.packet_id

tag_of(p) == p.header.tag

length(p) == p.header.length

\* a minimum-size check that is one byte too lenient
too_short_off_by_one(bytes) == BigLess(BLen(bytes), Small(HEADER_SIZE - 1))

\* bytes.len() < HEADER_SIZE
too_short(bytes) == BigLess(BLen(bytes), Small(HEADER_SIZE))

\* a length check that only notices a value cut short
length_mismatch_short_only(value, len) == BigLess(BLen(value), len)

\* value.len() != length
length_mismatch(value, len) == BLen(value) # len

\* <[u8; 4]>::try_from(&[u8]): fails unless the slice has four bytes
slice_try_into(sl) == [ok |-> Len(sl) = 4, array |-> sl]

\* Vortex::from_bytes after the minimum-size check
from_bytes_body(bytes) ==
  LET sp == split_to(bytes, HEADER_SIZE)
  IN  IF sp.panic THEN Panic(<< "split" >>)
      ELSE
        LET header == sp.head
            value == sp.rest
            id == header[1]
            t == TagTryFrom(header[2])
            arr == slice_try_into(SubSeq(header, 3, HEADER_SIZE))
            len == U32FromBeBytes(arr.array)
        IN  IF ~t.ok
              THEN Fail(Err("InvalidPacket", Small(0), Small(header[2])),
                        << "split", "packet_id", "tag" >>)
            ELSE IF ~arr.ok
              THEN Fail(Err("TryFromSlice", Small(4), Small(Len(arr.array))),
                        << "split", "packet_id", "tag", "length" >>)
            ELSE IF length_mismatch(value, len)
              THEN Fail(Err("InvalidLength", len, BLen(value)),
                        << "split", "packet_id", "tag", "length" >>)
            ELSE try_from(t.tag, Header(id, t.tag, len), value,
                          << "split", "packet_id", "tag", "length" >>)

\* from_bytes without its minimum-size check
from_bytes_unchecked(bytes) == from_bytes_body(bytes)

\* Vortex::from_bytes
from_bytes(bytes) ==
  IF too_short(bytes)
    THEN Fail(Err("InvalidPacket", Small(HEADER_SIZE), BLen(bytes)), << >>)
    ELSE from_bytes_body(bytes)

\* the serialized payload of a packet
value_of(p) ==
  CASE p.variant = "DownloadPiece" -> DownloadPieceInto(p.payload)
    [] p.variant = "PieceContent" -> PieceContentInto(p.payload)
    [] p.variant = "Reserved" -> EmptyBytes
    [] p.variant = "Close" -> EmptyBytes
    [] p.variant = "Error" -> ErrorInto(p.payload)

\* a header written with the tag before the packet id
header_bytes_tag_first(header, value) ==
  << TagToU8(header.tag), header.packet_id >> \o PutU32(AsU32(BLen(value)))

\* the six header bytes to_bytes writes
header_bytes(header, value) ==
  << header.packet_id, TagToU8(header.tag) >> \o PutU32(AsU32(BLen(value)))

\* Vortex::to_bytes
to_bytes(p) ==
  LET value == value_of(p)
  IN  Concat(header_bytes(p.header, value), value)

\* ------------------------------------------------------------------ inputs
DataBytes == {0, SEPARATOR, 65}

Data == UNION {[1..k -> DataBytes] : k \in 0..MaxData}

\* lengths of the zero run of a value: none, or up to the 4 GiB ceiling
Pads == {Small(0), BigSub(MAX_VALUE_SIZE, 1), MAX_VALUE_SIZE}

Values == {Mk(d, n) : d \in Data, n \in Pads}

Tags ==
  {DownloadPieceTag, PieceContentTag, CloseTag, ErrorTag,
   ReservedTag(2), ReservedTag(253)}

\* every byte the random generator can return
Ids == 0..255

\* the packet ids of received headers
PeerIds == {0, 255}

TagBytes == {TagToU8(t) : t \in Tags}

\* the declared lengths of received headers
Declared ==
  {Small(0), Small(1), Small(2), Big(1, 0), BigSub(MAX_VALUE_SIZE, 1)}

\* received buffers: a header and a value, or a header cut short
Received ==
  LET Headers ==
        {<< i, t >> \o PutU32(l) : i \in PeerIds, t \in TagBytes, l \in Declared}
  IN  {Concat(h, v) : h \in Headers, v \in Values}
        \cup {Mk(SubSeq(h, 1, k), Small(0)) : h \in Headers, k \in 0..(HEADER_SIZE - 1)}

\* the frame a peer writes for tag t and value v with packet id i
FrameOf(i, t, v) == Concat(<< i, TagToU8(t) >> \o PutU32(AsU32(BLen(v))), v)

None == [some |-> FALSE, bytes |-> EmptyBytes]

Some(b) == [some |-> TRUE, bytes |-> b]

\* ------------------------------------------------------------------- state
VARIABLES
  tag,      \* the tag given to the last Vortex::new
  value,    \* the value given to the last Vortex::new
  rnd,      \* the byte the random generator returned to it
  built,    \* the result of the last Vortex::new
  sent,     \* to_bytes of the built packet
  origin,   \* where the decoded buffer came from: loop, frame or net
  rcvd,     \* the buffer given to the last Vortex::from_bytes
  decoded,  \* the result of the last Vortex::from_bytes
  reenc     \* to_bytes of the decoded packet

vars == << tag, value, rnd, built, sent, origin, rcvd, decoded, reenc >>

Init ==
  /\ tag = ReservedTag(0)
  /\ value = EmptyBytes
  /\ rnd = 0
  /\ built = NoResult
  /\ sent = None
  /\ origin = "none"
  /\ rcvd = EmptyBytes
  /\ decoded = NoResult
  /\ reenc = None

\* no packet is held: each packet lives for one send or receive
Idle == built.kind = "none" /\ origin = "none"

\* a caller builds a packet: Vortex::new(t, v), the generator returning i
Construct ==
  /\ Idle
  /\ \E t \in Tags, v \in Values, i \in Ids :
       /\ tag' = t
       /\ value' = v
       /\ rnd' = i
       /\ built' = new(t, v, i)
  /\ sent' = None
  /\ origin' = "none"
  /\ rcvd' = EmptyBytes
  /\ decoded' = NoResult
  /\ reenc' = None

\* the caller serializes the built packet: to_bytes
Encode ==
  /\ built.kind = "ok"
  /\ ~sent.some
  /\ sent' = Some(to_bytes(built.pkt))
  /\ UNCHANGED << tag, value, rnd, built, origin, rcvd, decoded, reenc >>

\* the serialized packet is decoded again: from_bytes(p.to_bytes())
Deliver ==
  /\ sent.some
  /\ origin = "none"
  /\ origin' = "loop"
  /\ rcvd' = sent.bytes
  /\ decoded' = from_bytes(sent.bytes)
  /\ reenc' = None
  /\ UNCHANGED << tag, value, rnd, built, sent >>

\* the same tag and value arrive framed by a peer under packet id i, once
\* the caller is done with its own packet
DecodeFramed(i) ==
  /\ built.kind = "err" \/ sent.some
  /\ origin = "none"
  /\ origin' = "frame"
  /\ rcvd' = FrameOf(i, tag, value)
  /\ decoded' = from_bytes(rcvd')
  /\ reenc' = None
  /\ UNCHANGED << tag, value, rnd, built, sent >>

\* an arbitrary buffer arrives from the network: from_bytes(b)
Receive ==
  /\ Idle
  /\ \E b \in Received :
       /\ rcvd' = b
       /\ decoded' = from_bytes(b)
  /\ tag' = ReservedTag(0)
  /\ value' = EmptyBytes
  /\ rnd' = 0
  /\ built' = NoResult
  /\ sent' = None
  /\ origin' = "net"
  /\ reenc' = None

\* the decoded packet is serialized again: to_bytes
Reencode ==
  /\ decoded.kind = "ok"
  /\ ~reenc.some
  /\ reenc' = Some(to_bytes(decoded.pkt))
  /\ UNCHANGED << tag, value, rnd, built, sent, origin, rcvd, decoded >>

\* the packet and its buffers go out of scope
Release ==
  /\ ~Idle
  /\ tag' = ReservedTag(0)
  /\ value' = EmptyBytes
  /\ rnd' = 0
  /\ built' = NoResult
  /\ sent' = None
  /\ origin' = "none"
  /\ rcvd' = EmptyBytes
  /\ decoded' = NoResult
  /\ reenc' = None

Next ==
  \/ Construct
  \/ Encode
  \/ Deliver
  \/ \E i \in PeerIds : DecodeFramed(i)
  \/ Receive
  \/ Reencode
  \/ Release

Spec == Init /\ [][Next]_vars

\* ----------------------------------------------------------------- claims
\* the length declared in bytes 2..5 of a buffer of at least six bytes
DeclaredIn(b) ==
  Big(ByteAt(b, 2) * 256 + ByteAt(b, 3), ByteAt(b, 4) * 256 + ByteAt(b, 5))

HasHeader(b) == ~BigLess(BLen(b), Small(6))

\* the number of bytes after the header of a buffer of at least six bytes
Trailing(b) == BigSub(BLen(b), 6)

KnownCodes == {0, 1, 254, 255}

\* C1: round trip. Every packet Vortex::new accepts decodes again from its
\* to_bytes, to a packet with the same tag, the same length() and a payload
\* equal to the value given to new.
C1_RoundTrip ==
  origin = "loop" =>
    /\ decoded.kind = "ok"
    /\ tag_of(decoded.pkt) = tag
    /\ length(decoded.pkt) = length(built.pkt)
    /\ value_of(decoded.pkt) = value

\* C2: size ceiling. Vortex::new with a value longer than MAX_VALUE_SIZE
\* fails with InvalidLength, whatever the tag, before a packet id is drawn or
\* a header is built.
C2_SizeCeiling ==
  (built.kind # "none" /\ BigLess(MAX_VALUE_SIZE, BLen(value))) =>
    /\ built.kind = "err"
    /\ built.err.kind = "InvalidLength"
    /\ built.log = << >>

\* C3: header length. length() of every packet from new or from_bytes is the
\* number of value bytes to_bytes emits: to_bytes().len() = 6 + length().
C3_HeaderLength ==
  /\ sent.some => BLen(sent.bytes) = BigAdd(length(built.pkt), 6)
  /\ reenc.some => BLen(reenc.bytes) = BigAdd(length(decoded.pkt), 6)

\* C4: length match. from_bytes on a buffer of at least six bytes whose
\* count of bytes after the header differs from the length declared in bytes
\* 2..5 fails with InvalidLength reporting the observed and the declared
\* length, whatever the tag byte and the payload.
C4_LengthMatch ==
  (origin # "none" /\ HasHeader(rcvd) /\ Trailing(rcvd) # DeclaredIn(rcvd)) =>
    /\ decoded.kind = "err"
    /\ decoded.err = Err("InvalidLength", DeclaredIn(rcvd), Trailing(rcvd))

C4_Witness ==
  /\ origin = "net"
  /\ HasHeader(rcvd)
  /\ BigLess(DeclaredIn(rcvd), Trailing(rcvd))
  /\ ByteAt(rcvd, 1) = TAG_CLOSE
  /\ decoded.kind = "err"
  /\ decoded.err.kind = "InvalidLength"

\* C5: minimum size. from_bytes on a buffer of fewer than six bytes fails
\* with InvalidPacket reporting the minimum of 6 and the actual size, and has
\* inspected neither the tag byte nor the length field.
C5_MinimumSize ==
  (origin # "none" /\ ~HasHeader(rcvd)) =>
    /\ decoded.kind = "err"
    /\ decoded.err = Err("InvalidPacket", Small(6), BLen(rcvd))
    /\ decoded.log = << >>

C5_Witness ==
  /\ origin = "net"
  /\ BLen(rcvd) = Small(5)
  /\ decoded.kind = "err"
  /\ decoded.err.kind = "InvalidPacket"

\* C6: packet id stability. The byte drawn by new is the packet's id and
\* byte 0 of to_bytes; from_bytes takes the id from byte 0 of its buffer; so
\* a packet decoded from to_bytes of a built packet has the built packet's id.
C6_PacketIdStable ==
  /\ built.kind = "ok" => packet_id(built.pkt) = rnd
  /\ sent.some => ByteAt(sent.bytes, 0) = rnd
  /\ (origin # "none" /\ decoded.kind = "ok") =>
       packet_id(decoded.pkt) = ByteAt(rcvd, 0)
  /\ (origin = "loop" /\ decoded.kind = "ok") =>
       packet_id(decoded.pkt) = packet_id(built.pkt)

C6_Witness ==
  /\ origin = "loop"
  /\ decoded.kind = "ok"
  /\ rnd = 255
  /\ packet_id(decoded.pkt) = 255

\* C7: reserved tags. A buffer with an unassigned tag byte and a value as
\* long as declared decodes to a Reserved packet carrying the tag byte, and
\* to_bytes of that packet is the buffer again.
C7_ReservedRoundTrip ==
  (/\ origin = "net"
   /\ HasHeader(rcvd)
   /\ ByteAt(rcvd, 1) \notin KnownCodes
   /\ Trailing(rcvd) = DeclaredIn(rcvd)) =>
    /\ decoded.kind = "ok"
    /\ decoded.pkt.variant = "Reserved"
    /\ tag_of(decoded.pkt) = ReservedTag(ByteAt(rcvd, 1))
    /\ reenc.some => reenc.bytes = rcvd

\* C8: decode is total. from_bytes returns a packet or a typed error for
\* every buffer; no buffer reaches a panic.
C8_DecodeTotal ==
  origin # "none" =>
    \/ decoded.kind = "ok" /\ decoded.pkt.variant # "none"
    \/ /\ decoded.kind = "err"
       /\ decoded.err.kind \in {"InvalidPacket", "InvalidLength", "TryFromSlice"}

C8_Witness ==
  /\ origin = "net"
  /\ rcvd = EmptyBytes
  /\ decoded.kind = "err"

\* C9: construct and decode converge. new(T, V) succeeds exactly when
\* from_bytes of the frame  id, code(T), be32(len(V)), V  succeeds, and then
\* the two packets agree in variant, tag, length and payload and encode to
\* the same bytes after byte 0.
C9_Converge ==
  origin = "frame" =>
    /\ (built.kind = "ok") <=> (decoded.kind = "ok")
    /\ (built.kind = "ok" /\ decoded.kind = "ok") =>
         /\ decoded.pkt.variant = built.pkt.variant
         /\ tag_of(decoded.pkt) = tag_of(built.pkt)
         /\ length(decoded.pkt) = length(built.pkt)
         /\ decoded.pkt.payload = built.pkt.payload
         /\ (sent.some /\ reenc.some) =>
              Drop(reenc.bytes, 1) = Drop(sent.bytes, 1)

\* C10: to_bytes is self-consistent. The length written in bytes 2..5 is the
\* number of value bytes that follow, so from_bytes of to_bytes never fails
\* the length check, also for a value of exactly MAX_VALUE_SIZE bytes.
C10_SelfConsistent ==
  /\ sent.some => DeclaredIn(sent.bytes) = Trailing(sent.bytes)
  /\ reenc.some => DeclaredIn(reenc.bytes) = Trailing(reenc.bytes)
  /\ origin = "loop" =>
       ~(decoded.kind = "err" /\ decoded.err.kind = "InvalidLength")

====
